---------------------------- MODULE Spec2Model ----------------------------
(* Model of the limit order book of lob-rs (src/engine/mod.rs, duplicated  *)
(* in src/main.rs): OrderBook::add_order and its two matching loops,       *)
(* match_bid and match_ask.                                                *)
(*                                                                         *)
(* Prices are f64 in the source.  They are modelled by the integers        *)
(* 0..MaxPrice plus one extra value NaN; the f64 comparisons `>` and `<`   *)
(* are false whenever an operand is NaN, while the BTreeMap key order      *)
(* (OrderedFloat) is total and puts NaN above every number.  Quantities    *)
(* are u64; the code only ever subtracts min(a, b) from a and from b, so   *)
(* no arithmetic wraps.                                                    *)
(*                                                                         *)
(* One call of add_order is a sequence of steps: AddOrder (the dispatch),  *)
(* one MatchBidTrade / MatchAskTrade per loop iteration that trades, and   *)
(* MatchBidRest / MatchAskRest for the loop exit together with the         *)
(* trailing "rest on the book" block.  pc = "idle" is the book between     *)
(* calls.  submitted and trades are history variables: the orders as they  *)
(* were handed to add_order, and the executions of lines 51-58 / 96-103.   *)
EXTENDS Integers, Sequences, FiniteSets

VARIABLES bids, asks, order, pc, ret, submitted, trades

vars == <<bids, asks, order, pc, ret, submitted, trades>>

\* ---------------------------------------------------------------- bounds
\* MaxOrders: calls of add_order in a run.  MaxPrice, MaxQty: the largest
\* price and quantity a caller passes.  MaxInvalid: how many of the orders
\* of a run may be outside price > 0, quantity > 0 (the harness in main.rs
\* generates none; add_order itself accepts any).
MaxOrders == 3
MaxPrice == 2
MaxQty == 2
MaxInvalid == 1

\* ------------------------------------------------------------ value types
NaN == MaxPrice + 1

Prices == 0 .. NaN

Quantities == 0 .. MaxQty

Side == {"Buy", "Sell"}

Order(id, price, quantity, side) ==
    [_id |-> id, price |-> price, quantity |-> quantity, side |-> side]

NoOrder == Order(0, 0, 0, "None")

\* f64 `a > b` and `a < b`: false when either operand is NaN.
FGt(a, b) == a # NaN /\ b # NaN /\ a > b

FLt(a, b) == a # NaN /\ b # NaN /\ a < b

FLe(a, b) == a # NaN /\ b # NaN /\ a <= b

\* What the spec calls a valid order: price > 0 and quantity > 0.
Valid(o) == FGt(o.price, 0) /\ o.quantity > 0

\* What the spec says add_order rejects: price <= 0 or quantity == 0.
Rejectable(o) == FLe(o.price, 0) \/ o.quantity = 0

RECURSIVE CountInvalid(_)
CountInvalid(s) ==
    IF s = <<>> THEN 0
    ELSE (IF Valid(Head(s)) THEN 0 ELSE 1) + CountInvalid(Tail(s))

\* ------------------------------------------------------- BTreeMap helpers
\* A side of the book is a function from the price keys present to the
\* VecDeque (a sequence, front first) of the orders at that price.
EmptyMap == [p \in {} |-> <<>>]

\* Mutant of first_entry: the largest key is taken for the best ask.
first_entry_last(m) == CHOOSE k \in DOMAIN m : \A j \in DOMAIN m : k >= j

\* BTreeMap::first_entry / last_entry: the smallest / largest key.
first_entry(m) == CHOOSE k \in DOMAIN m : \A j \in DOMAIN m : k <= j

last_entry(m) == CHOOSE k \in DOMAIN m : \A j \in DOMAIN m : k >= j

\* Mutant of TooExpensive: `>=` in place of `>`.
TooExpensive_ge(best_ask_price, price) ==
    FGt(best_ask_price, price) \/ best_ask_price = price

\* Mutant of TooExpensive: the comparison is turned round (`<`).
TooExpensive_lt(best_ask_price, price) == FLt(best_ask_price, price)

\* `best_ask_price.into_inner() > order.price`: the sellers are too expensive.
TooExpensive(best_ask_price, price) == FGt(best_ask_price, price)

\* Mutant of TooCheap: `<=` in place of `<`.
TooCheap_le(best_bid_price, price) ==
    FLt(best_bid_price, price) \/ best_bid_price = price

\* Mutant of TooCheap: the sell side never matches and always rests.
TooCheap_stub(best_bid_price, price) == TRUE

\* `best_bid_price.into_inner() < order.price`: the buyers are too cheap.
TooCheap(best_bid_price, price) == FLt(best_bid_price, price)

\* Mutant of trade_qty: the incoming quantity, without the min.
trade_qty_incoming(incoming, resting) == incoming

\* `order.quantity.min(best.quantity)`
trade_qty(incoming, resting) == IF incoming <= resting THEN incoming ELSE resting

\* Mutant of fill_front: a partial fill is not written back to the front order.
fill_front_lost(queue, qty) ==
    IF Head(queue).quantity = qty THEN Tail(queue) ELSE queue

\* Mutant of fill_front: the filled front order is not popped.
fill_front_nopop(queue, qty) ==
    <<[Head(queue) EXCEPT !.quantity = @ - qty]>> \o Tail(queue)

\* Mutant of fill_front: the traded quantity is added to the front order.
fill_front_add(queue, qty) ==
    IF Head(queue).quantity = qty THEN Tail(queue)
    ELSE <<[Head(queue) EXCEPT !.quantity = @ + qty]>> \o Tail(queue)

\* Mutant of fill_front: a partially filled front order goes to the back.
fill_front_requeue(queue, qty) ==
    LET front == [Head(queue) EXCEPT !.quantity = @ - qty]
    IN IF front.quantity = 0 THEN Tail(queue) ELSE Tail(queue) \o <<front>>

\* Lines 58-63 / 103-108: take qty off the front order, pop it when it is 0.
fill_front(queue, qty) ==
    LET front == [Head(queue) EXCEPT !.quantity = @ - qty]
    IN IF front.quantity = 0 THEN Tail(queue) ELSE <<front>> \o Tail(queue)

\* Mutant of cleanup_level: the emptied level is kept.
cleanup_level_keep(m, key, queue) == [m EXCEPT ![key] = queue]

\* Lines 66-68 / 111-113: entry.remove() when the queue is empty.
cleanup_level(m, key, queue) ==
    IF queue = <<>>
    THEN [p \in DOMAIN m \ {key} |-> m[p]]
    ELSE [m EXCEPT ![key] = queue]

\* Mutant of rest_order: push_front in place of push_back.
rest_order_front(m, o) ==
    IF o.quantity > 0
    THEN [p \in DOMAIN m \cup {o.price} |->
            IF p = o.price
            THEN <<o>> \o (IF p \in DOMAIN m THEN m[p] ELSE <<>>)
            ELSE m[p]]
    ELSE m

\* Mutant of rest_order: the order rests whatever its remaining quantity.
rest_order_always(m, o) ==
    [p \in DOMAIN m \cup {o.price} |->
        IF p = o.price
        THEN (IF p \in DOMAIN m THEN m[p] ELSE <<>>) \o <<o>>
        ELSE m[p]]

\* Lines 75-80 / 120-125: entry(price).or_default().push_back(order.clone())
rest_order(m, o) ==
    IF o.quantity > 0
    THEN [p \in DOMAIN m \cup {o.price} |->
            IF p = o.price
            THEN (IF p \in DOMAIN m THEN m[p] ELSE <<>>) \o <<o>>
            ELSE m[p]]
    ELSE m

\* The execution the code performs in lines 51-58 / 96-103 (the commented
\* println names its price and quantity).
Trade(price, quantity, maker, taker) ==
    [price |-> price, quantity |-> quantity,
     maker_order_id |-> maker, taker_order_id |-> taker]

\* ------------------------------------------------------------------ state
Init ==
    /\ bids = EmptyMap
    /\ asks = EmptyMap
    /\ order = NoOrder
    /\ pc = "idle"
    /\ ret = "None"
    /\ submitted = <<>>
    /\ trades = <<>>

\* Mutant of AddOrder: the dispatch on the side is crossed over.
AddOrder_crossed(price, quantity, side) ==
    LET o == Order(Len(submitted) + 1, price, quantity, side) IN
    /\ pc = "idle"
    /\ Len(submitted) < MaxOrders
    /\ Valid(o) \/ CountInvalid(submitted) < MaxInvalid
    /\ order' = o
    /\ submitted' = Append(submitted, o)
    /\ pc' = IF side = "Buy" THEN "match_ask" ELSE "match_bid"
    /\ ret' = "None"
    /\ UNCHANGED <<bids, asks, trades>>

\* add_order: the caller hands over an order; dispatch on its side.
AddOrder(price, quantity, side) ==
    LET o == Order(Len(submitted) + 1, price, quantity, side) IN
    /\ pc = "idle"
    /\ Len(submitted) < MaxOrders
    /\ Valid(o) \/ CountInvalid(submitted) < MaxInvalid
    /\ order' = o
    /\ submitted' = Append(submitted, o)
    /\ pc' = IF side = "Buy" THEN "match_bid" ELSE "match_ask"
    /\ ret' = "None"
    /\ UNCHANGED <<bids, asks, trades>>

\* One iteration of the loop of match_bid that trades.
MatchBidTrade ==
    /\ pc = "match_bid"
    /\ order.quantity > 0
    /\ DOMAIN asks # {}
    /\ LET best_ask_price == first_entry(asks)
           ask_queue == asks[best_ask_price]
           best_ask_order == Head(ask_queue)
           qty == trade_qty(order.quantity, best_ask_order.quantity)
       IN /\ ~TooExpensive(best_ask_price, order.price)
          /\ order' = [order EXCEPT !.quantity = @ - qty]
          /\ asks' = cleanup_level(asks, best_ask_price, fill_front(ask_queue, qty))
          /\ trades' = Append(trades,
                 Trade(best_ask_price, qty, best_ask_order._id, order._id))
    /\ UNCHANGED <<bids, pc, ret, submitted>>

\* The loop of match_bid exits (filled, no sellers, or sellers too
\* expensive); the remainder, if any, rests on the bid side; return.
MatchBidRest ==
    /\ pc = "match_bid"
    /\ \/ order.quantity = 0
       \/ DOMAIN asks = {}
       \/ DOMAIN asks # {} /\ TooExpensive(first_entry(asks), order.price)
    /\ bids' = rest_order(bids, order)
    /\ pc' = "idle"
    /\ ret' = "Unit"
    /\ order' = NoOrder
    /\ UNCHANGED <<asks, submitted, trades>>

\* One iteration of the loop of match_ask that trades.
MatchAskTrade ==
    /\ pc = "match_ask"
    /\ order.quantity > 0
    /\ DOMAIN bids # {}
    /\ LET best_bid_price == last_entry(bids)
           bid_queue == bids[best_bid_price]
           best_bid_order == Head(bid_queue)
           qty == trade_qty(order.quantity, best_bid_order.quantity)
       IN /\ ~TooCheap(best_bid_price, order.price)
          /\ order' = [order EXCEPT !.quantity = @ - qty]
          /\ bids' = cleanup_level(bids, best_bid_price, fill_front(bid_queue, qty))
          /\ trades' = Append(trades,
                 Trade(best_bid_price, qty, best_bid_order._id, order._id))
    /\ UNCHANGED <<asks, pc, ret, submitted>>

\* The loop of match_ask exits; the remainder, if any, rests on the ask
\* side; return.
MatchAskRest ==
    /\ pc = "match_ask"
    /\ \/ order.quantity = 0
       \/ DOMAIN bids = {}
       \/ DOMAIN bids # {} /\ TooCheap(last_entry(bids), order.price)
    /\ asks' = rest_order(asks, order)
    /\ pc' = "idle"
    /\ ret' = "Unit"
    /\ order' = NoOrder
    /\ UNCHANGED <<bids, submitted, trades>>

Submit == \E p \in Prices, q \in Quantities, s \in Side : AddOrder(p, q, s)

Next ==
    \/ Submit
    \/ MatchBidTrade
    \/ MatchBidRest
    \/ MatchAskTrade
    \/ MatchAskRest

Spec == Init /\ [][Next]_vars

\* add_order is synchronous and single-threaded: a call that has started
\* keeps executing its loop until it returns.
MatchStep == MatchBidTrade \/ MatchBidRest \/ MatchAskTrade \/ MatchAskRest

\* Side m with order o appended at the back of the level at o's price.
Appended(m, o) ==
    [p \in DOMAIN m \cup {o.price} |->
        IF p = o.price
        THEN (IF p \in DOMAIN m THEN m[p] ELSE <<>>) \o <<o>>
        ELSE m[p]]

\* ------------------------------------------- the calls as pure functions
\* A book value: the two sides and the executions made so far.
Book(b, a, log) == [bids |-> b, asks |-> a, trades |-> log]

NewBook == Book(EmptyMap, EmptyMap, <<>>)

\* engine/mod.rs match_bid as a function of the book and the order: the
\* loop, then the rest block.
RECURSIVE match_bid(_, _)
match_bid(book, o) ==
    IF /\ o.quantity > 0
       /\ DOMAIN book.asks # {}
       /\ ~TooExpensive(first_entry(book.asks), o.price)
    THEN LET best_ask_price == first_entry(book.asks)
             ask_queue == book.asks[best_ask_price]
             best_ask_order == Head(ask_queue)
             qty == trade_qty(o.quantity, best_ask_order.quantity)
         IN match_bid(
               Book(book.bids,
                    cleanup_level(book.asks, best_ask_price,
                                  fill_front(ask_queue, qty)),
                    Append(book.trades,
                           Trade(best_ask_price, qty, best_ask_order._id, o._id))),
               [o EXCEPT !.quantity = @ - qty])
    ELSE Book(rest_order(book.bids, o), book.asks, book.trades)

\* engine/mod.rs match_ask as a function of the book and the order.
RECURSIVE match_ask(_, _)
match_ask(book, o) ==
    IF /\ o.quantity > 0
       /\ DOMAIN book.bids # {}
       /\ ~TooCheap(last_entry(book.bids), o.price)
    THEN LET best_bid_price == last_entry(book.bids)
             bid_queue == book.bids[best_bid_price]
             best_bid_order == Head(bid_queue)
             qty == trade_qty(o.quantity, best_bid_order.quantity)
         IN match_ask(
               Book(cleanup_level(book.bids, best_bid_price,
                                  fill_front(bid_queue, qty)),
                    book.asks,
                    Append(book.trades,
                           Trade(best_bid_price, qty, best_bid_order._id, o._id))),
               [o EXCEPT !.quantity = @ - qty])
    ELSE Book(book.bids, rest_order(book.asks, o), book.trades)

\* engine/mod.rs add_order.
add_order(book, o) ==
    IF o.side = "Buy" THEN match_bid(book, o) ELSE match_ask(book, o)

\* The engine's book after the orders of s, from an empty book.
RECURSIVE Run(_)
Run(s) ==
    IF s = <<>> THEN NewBook
    ELSE add_order(Run(SubSeq(s, 1, Len(s) - 1)), s[Len(s)])

\* main.rs match_bid (lines 40-83), the copy the harness drives.
RECURSIVE main_match_bid(_, _)
main_match_bid(book, o) ==
    IF o.quantity > 0 /\ DOMAIN book.asks # {}
    THEN LET best_ask_price ==
                 CHOOSE k \in DOMAIN book.asks : \A j \in DOMAIN book.asks : k <= j
             ask_queue == book.asks[best_ask_price]
         IN IF FGt(best_ask_price, o.price)
            THEN Book(IF o.quantity > 0
                      THEN Appended(book.bids, o) ELSE book.bids,
                      book.asks, book.trades)
            ELSE LET best_ask_order == Head(ask_queue)
                     qty == IF o.quantity <= best_ask_order.quantity
                            THEN o.quantity ELSE best_ask_order.quantity
                     left == best_ask_order.quantity - qty
                     queue2 == IF left = 0 THEN Tail(ask_queue)
                               ELSE <<[best_ask_order EXCEPT !.quantity = left]>>
                                        \o Tail(ask_queue)
                     asks2 == IF queue2 = <<>>
                              THEN [k \in DOMAIN book.asks \ {best_ask_price}
                                       |-> book.asks[k]]
                              ELSE [book.asks EXCEPT ![best_ask_price] = queue2]
                 IN main_match_bid(
                       Book(book.bids, asks2,
                            Append(book.trades,
                                   Trade(best_ask_price, qty,
                                         best_ask_order._id, o._id))),
                       [o EXCEPT !.quantity = @ - qty])
    ELSE Book(IF o.quantity > 0 THEN Appended(book.bids, o) ELSE book.bids,
              book.asks, book.trades)

\* main.rs match_ask (lines 85-128).
RECURSIVE main_match_ask(_, _)
main_match_ask(book, o) ==
    IF o.quantity > 0 /\ DOMAIN book.bids # {}
    THEN LET best_bid_price ==
                 CHOOSE k \in DOMAIN book.bids : \A j \in DOMAIN book.bids : k >= j
             bid_queue == book.bids[best_bid_price]
         IN IF FLt(best_bid_price, o.price)
            THEN Book(book.bids,
                      IF o.quantity > 0
                      THEN Appended(book.asks, o) ELSE book.asks,
                      book.trades)
            ELSE LET best_bid_order == Head(bid_queue)
                     qty == IF o.quantity <= best_bid_order.quantity
                            THEN o.quantity ELSE best_bid_order.quantity
                     left == best_bid_order.quantity - qty
                     queue2 == IF left = 0 THEN Tail(bid_queue)
                               ELSE <<[best_bid_order EXCEPT !.quantity = left]>>
                                        \o Tail(bid_queue)
                     bids2 == IF queue2 = <<>>
                              THEN [k \in DOMAIN book.bids \ {best_bid_price}
                                       |-> book.bids[k]]
                              ELSE [book.bids EXCEPT ![best_bid_price] = queue2]
                 IN main_match_ask(
                       Book(bids2, book.asks,
                            Append(book.trades,
                                   Trade(best_bid_price, qty,
                                         best_bid_order._id, o._id))),
                       [o EXCEPT !.quantity = @ - qty])
    ELSE Book(book.bids,
              IF o.quantity > 0 THEN Appended(book.asks, o) ELSE book.asks,
              book.trades)

\* main.rs add_order (lines 33-38).
main_add_order(book, o) ==
    IF o.side = "Buy" THEN main_match_bid(book, o) ELSE main_match_ask(book, o)

\* The book of main.rs after the orders of s, from an empty book.
RECURSIVE main_Run(_)
main_Run(s) ==
    IF s = <<>> THEN NewBook
    ELSE main_add_order(main_Run(SubSeq(s, 1, Len(s) - 1)), s[Len(s)])

\* ------------------------------------------------- vocabulary of the claims
AllValid == \A i \in 1 .. Len(submitted) : Valid(submitted[i])

BestBid == CHOOSE k \in DOMAIN bids : \A j \in DOMAIN bids : j <= k

BestAsk == CHOOSE k \in DOMAIN asks : \A j \in DOMAIN asks : k <= j

BothSides == DOMAIN bids # {} /\ DOMAIN asks # {}

Resting(m) == UNION {{m[p][i] : i \in 1 .. Len(m[p])} : p \in DOMAIN m}

RECURSIVE QueueQty(_, _)
QueueQty(queue, id) ==
    IF queue = <<>> THEN 0
    ELSE (IF Head(queue)._id = id THEN Head(queue).quantity ELSE 0)
         + QueueQty(Tail(queue), id)

RECURSIVE SideQty(_, _, _)
SideQty(m, keys, id) ==
    IF keys = {} THEN 0
    ELSE LET k == CHOOSE x \in keys : TRUE
         IN QueueQty(m[k], id) + SideQty(m, keys \ {k}, id)

\* The quantity order id has resting in the book made of sides b and a.
RestingQty(b, a, id) == SideQty(b, DOMAIN b, id) + SideQty(a, DOMAIN a, id)

RECURSIVE TradedQty(_, _)
TradedQty(log, id) ==
    IF log = <<>> THEN 0
    ELSE (IF Head(log).maker_order_id = id \/ Head(log).taker_order_id = id
          THEN Head(log).quantity ELSE 0)
         + TradedQty(Tail(log), id)

InFlightQty(id) == IF pc # "idle" /\ order._id = id THEN order.quantity ELSE 0

LastTrade == trades[Len(trades)]

\* ----------------------------------------------------------------- claims

\* C1 (no crossed book): when every order submitted so far was valid, then
\* after each completed add_order call, if both sides are non-empty the
\* highest bid price is strictly below the lowest ask price.
C1_NoCrossedBook ==
    (pc = "idle" /\ AllValid /\ BothSides) => BestBid < BestAsk

\* A crossing order has traded and both sides are still populated.
C1_Witness ==
    /\ pc = "idle" /\ AllValid /\ BothSides
    /\ trades # <<>>

\* C2 (conservation): for every order ever submitted, the quantity it
\* traded (as maker or as taker) plus the quantity it still has resting in
\* the book (or still carries while its own call is running) equals the
\* quantity it was submitted with.
C2_Conservation ==
    \A id \in 1 .. Len(submitted) :
        TradedQty(trades, id) + RestingQty(bids, asks, id) + InFlightQty(id)
            = submitted[id].quantity

\* An order took part in two trades and another one is partially filled
\* and still resting.
C2_Witness ==
    /\ pc = "idle"
    /\ \E i, j \in 1 .. Len(trades) :
          i < j /\ trades[i].taker_order_id = trades[j].taker_order_id
    /\ \E o \in Resting(bids) \cup Resting(asks) :
          TradedQty(trades, o._id) > 0

\* C3 (price priority): every trade of an incoming buy is against the
\* front of the lowest-priced ask level present at that moment, every trade
\* of an incoming sell against the highest-priced bid level; a level that
\* is not the best one of its side never loses an order or quantity.
C3_PricePriority ==
    [][/\ Len(trades') > Len(trades) =>
            LET t == trades'[Len(trades')] IN
            \/ /\ pc = "match_bid"
               /\ t.price = BestAsk
               /\ \E i \in 1 .. Len(asks[BestAsk]) :
                     asks[BestAsk][i]._id = t.maker_order_id
            \/ /\ pc = "match_ask"
               /\ t.price = BestBid
               /\ \E i \in 1 .. Len(bids[BestBid]) :
                     bids[BestBid][i]._id = t.maker_order_id
       /\ \A p \in DOMAIN asks :
            (p \notin DOMAIN asks' \/ \E o \in Resting(asks) :
                 o.price = p /\ RestingQty(EmptyMap, asks', o._id) < o.quantity)
              => p = BestAsk
       /\ \A p \in DOMAIN bids :
            (p \notin DOMAIN bids' \/ \E o \in Resting(bids) :
                 o.price = p /\ RestingQty(bids', EmptyMap, o._id) < o.quantity)
              => p = BestBid
      ]_vars

\* An incoming buy that crosses two ask levels has just traded at the
\* lower one while both levels are still there.
C3_Witness ==
    /\ pc = "match_bid"
    /\ trades # <<>>
    /\ LastTrade.taker_order_id = order._id
    /\ Cardinality(DOMAIN asks) >= 2
    /\ \A p \in DOMAIN asks : p # NaN /\ p <= order.price
    /\ LastTrade.price = BestAsk

Position(queue, id) == CHOOSE i \in 1 .. Len(queue) : queue[i]._id = id

\* Orders a (ahead) and b (behind) of one level of side m, and the same
\* side m2 one step later: a arrived first, b loses nothing while a is
\* still there, and if both remain they remain in that order.
KeepsTimePriority(m, m2, p, a, b) ==
    LET qa == RestingQty(m2, EmptyMap, a._id)
        qb == RestingQty(m2, EmptyMap, b._id)
    IN /\ a._id < b._id
       /\ qb < b.quantity => qa = 0
       /\ (qa > 0 /\ qb > 0) =>
             /\ p \in DOMAIN m2
             /\ Position(m2[p], a._id) < Position(m2[p], b._id)

\* C4 (time priority): of two orders resting at one price on one side the
\* one submitted earlier is ahead in the queue, the later one is never
\* reduced while the earlier one still rests, and their relative order
\* never changes.
C4_TimePriority ==
    [][\A m \in {<<bids, bids'>>, <<asks, asks'>>} :
         \A p \in DOMAIN m[1] :
           \A i, j \in 1 .. Len(m[1][p]) :
              i < j => KeepsTimePriority(m[1], m[2], p, m[1][p][i], m[1][p][j])
      ]_vars

\* Two orders rest at one price, the earlier one partially filled and
\* still ahead of the later one, which is untouched.
C4_Witness ==
    /\ pc = "idle"
    /\ \E p \in DOMAIN asks :
          /\ Len(asks[p]) >= 2
          /\ asks[p][1].quantity < submitted[asks[p][1]._id].quantity
          /\ asks[p][2].quantity = submitted[asks[p][2]._id].quantity

\* The order of the call that is running, as it was submitted.
Submitted == submitted[order._id]

BookUntouched == bids' = bids /\ asks' = asks /\ trades' = trades

\* C5 (rejection on non-positive price is effect-free): no step of an
\* add_order call whose order has price <= 0 and quantity > 0 changes the
\* bid side or the ask side or executes a trade.
C5_NonPositivePriceEffectFree ==
    [][(pc # "idle" /\ FLe(Submitted.price, 0) /\ Submitted.quantity > 0)
          => BookUntouched]_vars

\* C6 (rejection on zero quantity is effect-free): no step of an add_order
\* call whose order has quantity 0, at any price and on either side,
\* changes the bid side or the ask side or executes a trade.
C6_ZeroQuantityEffectFree ==
    [][(pc # "idle" /\ Submitted.quantity = 0) => BookUntouched]_vars

\* A call with a zero-quantity order at a price the opposite side would
\* trade at has returned, and the book still holds orders.
C6_Witness ==
    /\ pc = "idle"
    /\ submitted # <<>>
    /\ LET o == submitted[Len(submitted)] IN
          /\ o.quantity = 0
          /\ o.side = "Buy"
          /\ asks # EmptyMap
          /\ ~FGt(BestAsk, o.price)

\* C7 (InvalidOrder is reported exactly for price <= 0 or quantity == 0):
\* when a call has returned, its outcome is InvalidOrder if and only if
\* the order it was given has price <= 0 or quantity == 0.
C7_InvalidOrderReported ==
    (pc = "idle" /\ submitted # <<>>) =>
        (ret = "InvalidOrder" <=> Rejectable(submitted[Len(submitted)]))

\* C8 (trade quantity and price): every trade has the quantity
\* min(incoming remaining, front resting remaining), is made against the
\* front order of the best opposite level, and executes at that resting
\* order's price.
C8_TradeQtyAndPrice ==
    [][Len(trades') > Len(trades) =>
         LET t == trades'[Len(trades')]
             front == IF pc = "match_bid" THEN Head(asks[BestAsk])
                      ELSE Head(bids[BestBid])
             least == IF order.quantity <= front.quantity
                      THEN order.quantity ELSE front.quantity
         IN /\ Len(trades') = Len(trades) + 1
            /\ t.quantity = least
            /\ t.price = front.price
            /\ t.maker_order_id = front._id
            /\ t.taker_order_id = order._id
            /\ order'.quantity = order.quantity - least
            /\ RestingQty(bids', asks', front._id) = front.quantity - least
      ]_vars

\* A sell whose limit is below the resting bid's price has traded part of
\* that bid, at the bid's price (Buy 2 @ 2 resting, then Sell 1 @ 1).
C8_Witness ==
    \E i \in 1 .. Len(trades) :
        LET t == trades[i]
            maker == submitted[t.maker_order_id]
            taker == submitted[t.taker_order_id]
        IN /\ taker.side = "Sell" /\ Valid(taker) /\ Valid(maker)
           /\ taker.price < maker.price
           /\ t.price = maker.price
           /\ t.quantity = taker.quantity
           /\ t.quantity < maker.quantity

\* C9 (no empty price level): every price key of the bid map and of the
\* ask map has a non-empty queue, in every state (so in particular after
\* every completed call).
C9_NoEmptyLevel ==
    /\ \A p \in DOMAIN bids : bids[p] # <<>>
    /\ \A p \in DOMAIN asks : asks[p] # <<>>

\* The only order of a level was filled and the level is gone, while
\* another level of that side is still there.
C9_Witness ==
    /\ pc = "idle"
    /\ asks # EmptyMap
    /\ \E i \in 1 .. Len(trades) :
          LET maker == submitted[trades[i].maker_order_id]
          IN /\ maker.side = "Sell"
             /\ trades[i].quantity = maker.quantity
             /\ maker.price \notin DOMAIN asks

\* C10 (resting quantity > 0): no order stored in a bid or ask level has
\* quantity 0, in every state.
C10_RestingQtyPositive ==
    \A o \in Resting(bids) \cup Resting(asks) : o.quantity > 0

\* One resting order was filled completely and removed, the next one of
\* the same call was reduced and rests with what is left.
C10_Witness ==
    /\ pc = "idle"
    /\ \E i, j \in 1 .. Len(trades) :
          LET mi == trades[i].maker_order_id
              mj == trades[j].maker_order_id
          IN /\ i < j
             /\ trades[i].taker_order_id = trades[j].taker_order_id
             /\ RestingQty(bids, asks, mi) = 0
             /\ RestingQty(bids, asks, mj) > 0
             /\ RestingQty(bids, asks, mj) < submitted[mj].quantity

\* C11 (idempotent emptiness): a valid order whose opposite side is empty
\* when its call starts makes no trade, and the next step of the call ends
\* it with the whole order, at its full submitted quantity, appended to
\* the back of its own side's level at its own price.
C11_EmptyOppositeRestsAll ==
    [][(pc # "idle" /\ order = Submitted /\ Valid(order)
          /\ (IF pc = "match_bid" THEN asks ELSE bids) = EmptyMap)
        => /\ pc' = "idle"
           /\ trades' = trades
           /\ IF pc = "match_bid"
              THEN asks' = EmptyMap /\ bids' = Appended(bids, Submitted)
              ELSE bids' = EmptyMap /\ asks' = Appended(asks, Submitted)
      ]_vars

\* A valid buy has returned without a trade while there are no asks, and
\* rests whole behind an earlier order of its level.
C11_Witness ==
    /\ pc = "idle"
    /\ asks = EmptyMap
    /\ submitted # <<>>
    /\ LET o == submitted[Len(submitted)] IN
          /\ Valid(o) /\ o.side = "Buy"
          /\ TradedQty(trades, o._id) = 0
          /\ o.price \in DOMAIN bids
          /\ Len(bids[o.price]) >= 2
          /\ bids[o.price][Len(bids[o.price])] = o

\* C12 (equal prices cross): an incoming buy that still has quantity and
\* whose price equals the lowest ask price trades at that level in its
\* next step, and so does an incoming sell whose price equals the highest
\* bid price; when a call returns, no price is a key of both sides.
C12_EqualPricesCross ==
    [][/\ (pc = "match_bid" /\ order.quantity > 0 /\ asks # EmptyMap
             /\ BestAsk = order.price)
          => /\ Len(trades') = Len(trades) + 1
             /\ trades'[Len(trades')].price = order.price
             /\ trades'[Len(trades')].maker_order_id = Head(asks[BestAsk])._id
       /\ (pc = "match_ask" /\ order.quantity > 0 /\ bids # EmptyMap
             /\ BestBid = order.price)
          => /\ Len(trades') = Len(trades) + 1
             /\ trades'[Len(trades')].price = order.price
             /\ trades'[Len(trades')].maker_order_id = Head(bids[BestBid])._id
       /\ pc' = "idle" => DOMAIN bids' \cap DOMAIN asks' = {}
      ]_vars

\* Sell 2 @ 2 rests, then Buy 1 @ 2 trades 1 at 2 and the ask keeps 1 @ 2.
C12_Witness ==
    /\ pc = "idle"
    /\ \E i \in 1 .. Len(trades) :
          LET t == trades[i]
              maker == submitted[t.maker_order_id]
              taker == submitted[t.taker_order_id]
          IN /\ Valid(maker) /\ Valid(taker)
             /\ taker.side = "Buy"
             /\ taker.price = maker.price
             /\ t.price = taker.price
             /\ RestingQty(EmptyMap, asks, maker._id) > 0

RECURSIVE QueueTotal(_)
QueueTotal(queue) ==
    IF queue = <<>> THEN 0 ELSE Head(queue).quantity + QueueTotal(Tail(queue))

RECURSIVE SideTotal(_, _)
SideTotal(m, keys) ==
    IF keys = {} THEN 0
    ELSE LET k == CHOOSE x \in keys : TRUE
         IN QueueTotal(m[k]) + SideTotal(m, keys \ {k})

\* The total quantity resting on side m.
TotalQty(m) == SideTotal(m, DOMAIN m)

RECURSIVE Iterations(_, _)
\* How many trades of log were made by the call of order id.
Iterations(log, id) ==
    IF log = <<>> THEN 0
    ELSE (IF Head(log).taker_order_id = id THEN 1 ELSE 0)
         + Iterations(Tail(log), id)

\* C13 (termination): every iteration of the matching loop that does not
\* leave the loop trades at least 1 and lowers the total quantity resting
\* on the opposite side by what it trades; a call never makes more
\* iterations than the quantity it has traded, hence than the quantity it
\* was submitted with; and a call that has not returned can always take
\* its next step.
C13_Termination ==
    /\ [][(pc # "idle" /\ pc' = pc) =>
            LET opp == IF pc = "match_bid" THEN asks ELSE bids
                opp2 == IF pc = "match_bid" THEN asks' ELSE bids'
                t == trades'[Len(trades')]
            IN /\ Len(trades') = Len(trades) + 1
               /\ t.quantity >= 1
               /\ TotalQty(opp2) = TotalQty(opp) - t.quantity
               /\ TotalQty(opp2) >= 0
         ]_vars
    /\ [](pc # "idle" =>
            /\ Iterations(trades, order._id) <= Submitted.quantity - order.quantity
            /\ order.quantity >= 0
            /\ ENABLED MatchStep)

\* A call has returned after two iterations of its loop.
C13_Witness ==
    /\ pc = "idle"
    /\ Len(trades) >= 2
    /\ trades[Len(trades)].taker_order_id = Len(submitted)
    /\ trades[Len(trades) - 1].taker_order_id = Len(submitted)

\* The price keys of side m whose level holds order id.
Holder(m, id) == {p \in DOMAIN m : \E i \in 1 .. Len(m[p]) : m[p][i]._id = id}

Ids(m) == {o._id : o \in Resting(m)}

\* Order o of side m, and that side m2 one step later: o is gone from m2
\* or is there at the same key, with the same id, price and side and no
\* more quantity.
NeverReverses(m, m2, o) ==
    \A o2 \in Resting(m2) :
        o2._id = o._id =>
            /\ o2.price = o.price
            /\ o2.side = o.side
            /\ o2.quantity <= o.quantity
            /\ Holder(m2, o._id) = Holder(m, o._id)

\* C14 (resting orders never reverse): across every step, a resting order
\* keeps its id, price, side and level and its quantity does not grow; it
\* never moves to the other side; and the only order that can appear in
\* the book is the order of the running call, in the step that ends that
\* call, so an order that has left the book does not come back.
C14_RestingNeverReverses ==
    [][/\ \A o \in Resting(bids) : NeverReverses(bids, bids', o)
       /\ \A o \in Resting(asks) : NeverReverses(asks, asks', o)
       /\ Ids(bids) \cap Ids(asks') = {}
       /\ Ids(asks) \cap Ids(bids') = {}
       /\ \A id \in (Ids(bids') \cup Ids(asks')) \ (Ids(bids) \cup Ids(asks)) :
             /\ pc # "idle" /\ pc' = "idle"
             /\ id = order._id
             /\ id = Len(submitted)
             /\ TradedQty(trades, id) + order.quantity = Submitted.quantity
      ]_vars

\* The first order rests reduced by the second call, a third call has
\* come and gone without touching it, and an order that was filled is not
\* in the book.
C14_Witness ==
    /\ pc = "idle"
    /\ Len(submitted) = MaxOrders
    /\ trades # <<>>
    /\ LastTrade.taker_order_id < Len(submitted)
    /\ \E o \in Resting(bids) \cup Resting(asks) :
          /\ o._id = LastTrade.maker_order_id
          /\ o.quantity < submitted[o._id].quantity
          /\ o.price = submitted[o._id].price
          /\ o.side = submitted[o._id].side
    /\ RestingQty(bids, asks, LastTrade.taker_order_id) = 0

\* C15 (a fully matched order is never inserted): while a call runs its
\* loop its own side does not change, and when the order's remaining
\* quantity has reached 0 in the loop the call returns with its own side
\* still exactly as it was.
C15_FilledNeverInserted ==
    [][/\ (pc = "match_bid" /\ pc' = "match_bid") => bids' = bids
       /\ (pc = "match_ask" /\ pc' = "match_ask") => asks' = asks
       /\ (pc = "match_bid" /\ Submitted.quantity > 0 /\ order.quantity = 0)
             => (bids' = bids /\ pc' = "idle")
       /\ (pc = "match_ask" /\ Submitted.quantity > 0 /\ order.quantity = 0)
             => (asks' = asks /\ pc' = "idle")
      ]_vars

\* A buy was filled completely in its own call, which has returned; the
\* bid side holds an earlier bid and nothing of the filled order.
C15_Witness ==
    /\ pc = "idle"
    /\ submitted # <<>>
    /\ LET o == submitted[Len(submitted)] IN
          /\ o.side = "Buy" /\ Valid(o)
          /\ TradedQty(trades, o._id) = o.quantity
          /\ bids # EmptyMap
          /\ o._id \notin Ids(bids)

\* Side m one step before side m2: the front order of every level of m
\* that is still in m2 is still the front order of that level, and where
\* it lost quantity nothing else of the level changed.
FrontStaysFront(m, m2) ==
    \A p \in DOMAIN m :
        LET front == Head(m[p]) IN
        front._id \in Ids(m2) =>
            /\ p \in DOMAIN m2
            /\ Head(m2[p])._id = front._id
            /\ Head(m2[p]).quantity < front.quantity =>
                  m2[p] = <<[front EXCEPT !.quantity = Head(m2[p]).quantity]>>
                              \o Tail(m[p])

C17_Frame ==
    [][/\ (pc = "match_bid" /\ Valid(Submitted)) =>
            /\ \A k \in DOMAIN asks \cup DOMAIN asks' :
                  FGt(k, order.price) =>
                     k \in DOMAIN asks /\ k \in DOMAIN asks' /\ asks'[k] = asks[k]
            /\ bids' = bids \/ (pc' = "idle" /\ bids' = Appended(bids, order))
       /\ (pc = "match_ask" /\ Valid(Submitted)) =>
            /\ \A k \in DOMAIN bids \cup DOMAIN bids' :
                  FLt(k, order.price) =>
                     k \in DOMAIN bids /\ k \in DOMAIN bids' /\ bids'[k] = bids[k]
            /\ asks' = asks \/ (pc' = "idle" /\ asks' = Appended(asks, order))
      ]_vars

\* A valid buy has traded at a lower ask level, stopped at an ask level
\* above its price, which is as it was submitted, and rested its remainder.
C17_Witness ==
    /\ pc = "idle"
    /\ submitted # <<>>
    /\ LET o == submitted[Len(submitted)] IN
          /\ o.side = "Buy" /\ Valid(o)
          /\ TradedQty(trades, o._id) > 0
          /\ RestingQty(bids, EmptyMap, o._id) > 0
          /\ \E k \in DOMAIN asks :
                /\ FGt(k, o.price)
                /\ \A i \in 1 .. Len(asks[k]) : asks[k][i] = submitted[asks[k][i]._id]

\* C19 (side and price-key consistency): every order stored in the bid map
\* has side Buy, every order stored in the ask map has side Sell, and each
\* stored order's price is the key of its level and the price it was
\* submitted with.
C19_SideAndKeyConsistent ==
    /\ \A p \in DOMAIN bids : \A i \in 1 .. Len(bids[p]) :
          /\ bids[p][i].side = "Buy"
          /\ bids[p][i].price = p
          /\ submitted[bids[p][i]._id].price = p
    /\ \A p \in DOMAIN asks : \A i \in 1 .. Len(asks[p]) :
          /\ asks[p][i].side = "Sell"
          /\ asks[p][i].price = p
          /\ submitted[asks[p][i]._id].price = p

\* A buy traded at a price below its limit and its remainder rests in the
\* bid map under its own limit price, with an ask resting too.
C19_Witness ==
    /\ pc = "idle"
    /\ asks # EmptyMap
    /\ \E o \in Resting(bids) : \E i \in 1 .. Len(trades) :
          /\ trades[i].taker_order_id = o._id
          /\ trades[i].price < o.price
          /\ o.price \in DOMAIN bids

\* The price p reflected around the pivot: 1 .. MaxPrice onto itself.
Reflect(p) == MaxPrice + 1 - p

Flip(side) == IF side = "Buy" THEN "Sell" ELSE "Buy"

MirrorOrder(o) == [o EXCEPT !.side = Flip(@), !.price = Reflect(@)]

MirrorSeq(s) == [i \in 1 .. Len(s) |-> MirrorOrder(s[i])]

MirrorSide(m) ==
    [p \in {Reflect(k) : k \in DOMAIN m} |-> MirrorSeq(m[Reflect(p)])]

MirrorTrades(log) ==
    [i \in 1 .. Len(log) |-> [log[i] EXCEPT !.price = Reflect(@)]]

\* C18 (bid/ask symmetry): when a call of a run of valid orders returns, the
\* engine fed the same orders with sides flipped and prices reflected
\* holds the mirror of the book (bids and asks swapped, prices reflected,
\* same queues and quantities) and has made the same trades, with the same
\* quantities between the same order ids, at the reflected prices.
C18_Symmetry ==
    [][(pc # "idle" /\ pc' = "idle" /\ AllValid) =>
          LET mirror == Run(MirrorSeq(submitted')) IN
          /\ mirror.bids = MirrorSide(asks')
          /\ mirror.asks = MirrorSide(bids')
          /\ mirror.trades = MirrorTrades(trades')
      ]_vars

\* A run of valid orders with a trade made by a buy and a trade made by a
\* sell, and an order left resting.
C18_Witness ==
    /\ pc = "idle" /\ AllValid
    /\ \E i, j \in 1 .. Len(trades) :
          /\ submitted[trades[i].taker_order_id].side = "Buy"
          /\ submitted[trades[j].taker_order_id].side = "Sell"
    /\ bids # EmptyMap \/ asks # EmptyMap

\* C20 (the two copies agree): when a call returns, the book of main.rs fed
\* the orders submitted so far holds the same bids and asks as the
\* engine's book and has made the same trades.
C20_CopiesAgree ==
    [][(pc # "idle" /\ pc' = "idle") =>
          LET twin == main_Run(submitted') IN
          /\ twin.bids = bids'
          /\ twin.asks = asks'
          /\ twin.trades = trades'
      ]_vars

\* Both copies have been through a buy that traded and rested and a sell
\* that traded.
C20_Witness ==
    /\ pc = "idle"
    /\ Len(submitted) = MaxOrders
    /\ bids # EmptyMap
    /\ \E i, j \in 1 .. Len(trades) :
          /\ submitted[trades[i].taker_order_id].side = "Buy"
          /\ submitted[trades[j].taker_order_id].side = "Sell"
    /\ main_Run(submitted).trades = trades

=============================================================================
